---- MODULE Spec2Model ----
(***************************************************************************)
(* Model of the 2026 salary prediction engine of Python/main.py.           *)
(*                                                                         *)
(* Text is modelled by TLA+ strings, processed character by character the  *)
(* way the Python string methods do.  Python's None is the value None.     *)
(*                                                                         *)
(* Floating point numbers are modelled in fixed point.  Factors, weights,  *)
(* premiums, rates and years are integers in units of 1/FScale; every      *)
(* table value of the program is exact on that grid.  Salaries are         *)
(* integers in units of 1/MoneyScale dollar.  A product is rounded down to *)
(* the grid after each multiplication, which stands for the rounding of    *)
(* each IEEE operation (both roundings are monotone and exact on values of *)
(* the grid).                                                              *)
(***************************************************************************)
EXTENDS Integers, Sequences, FiniteSets, TLC

FScale == 10^4
MoneyScale == 10^3

None == "<None>"

Min(a, b) == IF a <= b THEN a ELSE b
Max(a, b) == IF a >= b THEN a ELSE b

\* floor(x * m / d) without an intermediate product wider than the result
MulDiv(x, m, d) == (x \div d) * m + ((x % d) * m) \div d

\* float * float on the factor grid
FMul(x, m) == MulDiv(x, m, FScale)

\* int -> float dollars
ToMoney(n) == n * MoneyScale

(***************************************************************************)
(* Python str methods                                                      *)
(***************************************************************************)
UpperChars == "ABCDEFGHIJKLMNOPQRSTUVWXYZ"
LowerChars == "abcdefghijklmnopqrstuvwxyz"
DigitChars == "0123456789"
Whitespace == {" ", "\t", "\n", "\r", "\f"}

CharAt(s, i) == SubSeq(s, i, i)

IndexIn(alphabet, c) ==
    IF \E i \in 1..Len(alphabet) : CharAt(alphabet, i) = c
    THEN CHOOSE i \in 1..Len(alphabet) : CharAt(alphabet, i) = c
    ELSE 0

LowerChar(c) ==
    LET i == IndexIn(UpperChars, c) IN IF i = 0 THEN c ELSE CharAt(LowerChars, i)

UpperChar(c) ==
    LET i == IndexIn(LowerChars, c) IN IF i = 0 THEN c ELSE CharAt(UpperChars, i)

RECURSIVE Lower(_)
Lower(s) == IF s = "" THEN "" ELSE LowerChar(Head(s)) \o Lower(Tail(s))

RECURSIVE Upper(_)
Upper(s) == IF s = "" THEN "" ELSE UpperChar(Head(s)) \o Upper(Tail(s))

RECURSIVE LStrip(_)
LStrip(s) == IF s # "" /\ Head(s) \in Whitespace THEN LStrip(Tail(s)) ELSE s

RECURSIVE RStrip(_)
RStrip(s) ==
    IF s # "" /\ CharAt(s, Len(s)) \in Whitespace
    THEN RStrip(SubSeq(s, 1, Len(s) - 1))
    ELSE s

Strip(s) == RStrip(LStrip(s))

\* k in t
Contains(t, k) ==
    \E i \in 1..(Len(t) - Len(k) + 1) : SubSeq(t, i, i + Len(k) - 1) = k

\* s.replace(a, b) for a single character a
RECURSIVE Replace(_, _, _)
Replace(s, a, b) ==
    IF s = "" THEN ""
    ELSE (IF Head(s) = a THEN b ELSE Head(s)) \o Replace(Tail(s), a, b)

\* x or d
StrOr(x, d) == IF x = None \/ x = "" THEN d ELSE x

(***************************************************************************)
(* Configuration tables                                                    *)
(***************************************************************************)
BASELINES_2024 ==
    [ cybersecurity_engineer  |-> [entry |-> <<90000, 120000>>,  mid |-> <<120000, 160000>>, senior |-> <<160000, 210000>>],
      cloud_security_engineer |-> [entry |-> <<105000, 135000>>, mid |-> <<135000, 175000>>, senior |-> <<175000, 230000>>],
      devsecops_engineer      |-> [entry |-> <<100000, 130000>>, mid |-> <<130000, 170000>>, senior |-> <<170000, 225000>>],
      appsec_engineer         |-> [entry |-> <<100000, 135000>>, mid |-> <<135000, 180000>>, senior |-> <<180000, 240000>>],
      soc_analyst             |-> [entry |-> <<70000, 95000>>,   mid |-> <<95000, 125000>>,  senior |-> <<125000, 160000>>],
      incident_response_dfir  |-> [entry |-> <<95000, 125000>>,  mid |-> <<125000, 165000>>, senior |-> <<165000, 220000>>],
      threat_hunter           |-> [entry |-> <<100000, 130000>>, mid |-> <<130000, 175000>>, senior |-> <<175000, 230000>>],
      penetration_tester      |-> [entry |-> <<85000, 115000>>,  mid |-> <<115000, 155000>>, senior |-> <<155000, 210000>>],
      iam_engineer            |-> [entry |-> <<90000, 120000>>,  mid |-> <<120000, 160000>>, senior |-> <<160000, 210000>>],
      security_architect      |-> [entry |-> <<135000, 175000>>, mid |-> <<175000, 220000>>, senior |-> <<220000, 280000>>],
      grc_analyst             |-> [entry |-> <<80000, 105000>>,  mid |-> <<105000, 140000>>, senior |-> <<140000, 185000>>] ]

CAGR_BY_ROLE ==
    [ default                 |-> 500,
      cloud_security_engineer |-> 700,
      devsecops_engineer      |-> 700,
      appsec_engineer         |-> 600,
      security_architect      |-> 600 ]

INFLATION_2024_TO_2026 == 10700

GEO_MULTIPLIER ==
    [ CA |-> 11800, NY |-> 11500, WA |-> 11200, MA |-> 11000, DC |-> 11200,
      VA |-> 10700, TX |-> 10300, FL |-> 10000, IL |-> 10200, CO |-> 10500,
      GA |-> 9800,  NC |-> 9800,  AZ |-> 9700,  OH |-> 9500,  PA |-> 9700,
      REMOTE |-> 10000, DEFAULT |-> 10000 ]

SKILL_PREMIUM ==
    [ aws_security |-> 500, azure_security |-> 500, gcp_security |-> 500,
      kubernetes |-> 400, terraform |-> 300, containers |-> 300,
      cnapp |-> 400, cspm |-> 300,
      zero_trust |-> 400, iam |-> 300, okta |-> 200, entra_id |-> 200,
      sso_saml_oidc |-> 200, siem |-> 300, soar |-> 300, edr |-> 200,
      dfir |-> 500, incident_response |-> 400, threat_hunting |-> 400,
      malware_analysis |-> 400, reverse_engineering |-> 400,
      secure_sdlc |-> 300, sast_dast |-> 300, threat_modeling |-> 300,
      oscp |-> 600, gcih |-> 500, gcfa |-> 500, gpen |-> 500,
      cissp |-> 500, ccsp |-> 500, security_plus |-> 200 ]

\* the insertion order of SKILL_PREMIUM, which its iteration follows
SKILL_ORDER ==
    << "aws_security", "azure_security", "gcp_security", "kubernetes",
       "terraform", "containers", "cnapp", "cspm",
       "zero_trust", "iam", "okta", "entra_id", "sso_saml_oidc", "siem",
       "soar", "edr",
       "dfir", "incident_response", "threat_hunting", "malware_analysis",
       "reverse_engineering",
       "secure_sdlc", "sast_dast", "threat_modeling",
       "oscp", "gcih", "gcfa", "gpen", "cissp", "ccsp", "security_plus" >>

\* dicts iterated in insertion order are sequences of items
ROLE_ALIASES ==
    << [k |-> "security engineer",             v |-> "cybersecurity_engineer"],
       [k |-> "cybersecurity engineer",        v |-> "cybersecurity_engineer"],
       [k |-> "cyber security engineer",       v |-> "cybersecurity_engineer"],
       [k |-> "cloud security engineer",       v |-> "cloud_security_engineer"],
       [k |-> "devsecops engineer",            v |-> "devsecops_engineer"],
       [k |-> "application security engineer", v |-> "appsec_engineer"],
       [k |-> "appsec engineer",               v |-> "appsec_engineer"],
       [k |-> "soc analyst",                   v |-> "soc_analyst"],
       [k |-> "incident response",             v |-> "incident_response_dfir"],
       [k |-> "dfir",                          v |-> "incident_response_dfir"],
       [k |-> "threat hunter",                 v |-> "threat_hunter"],
       [k |-> "penetration tester",            v |-> "penetration_tester"],
       [k |-> "pen tester",                    v |-> "penetration_tester"],
       [k |-> "red team",                      v |-> "penetration_tester"],
       [k |-> "iam engineer",                  v |-> "iam_engineer"],
       [k |-> "security architect",            v |-> "security_architect"],
       [k |-> "grc analyst",                   v |-> "grc_analyst"] >>

LEVEL_ALIASES ==
    << [k |-> "junior",       v |-> "entry"],
       [k |-> "entry",        v |-> "entry"],
       [k |-> "entry-level",  v |-> "entry"],
       [k |-> "mid",          v |-> "mid"],
       [k |-> "mid-level",    v |-> "mid"],
       [k |-> "intermediate", v |-> "mid"],
       [k |-> "senior",       v |-> "senior"],
       [k |-> "lead",         v |-> "senior"],
       [k |-> "staff",        v |-> "senior"],
       [k |-> "principal",    v |-> "senior"] >>

DEFAULT_WEIGHTS ==
    [ cagr |-> 2000, inflation |-> 2000, skills |-> 2000, geo |-> 2000,
      regression |-> 2000 ]

(***************************************************************************)
(* dict helpers                                                            *)
(***************************************************************************)
\* d.get(key, dflt)
Get(d, key, dflt) == IF key \in DOMAIN d THEN d[key] ELSE dflt

\* key in items
HasKey(items, key) == \E i \in 1..Len(items) : items[i].k = key

\* items[key]
Lookup(items, key) == items[CHOOSE i \in 1..Len(items) : items[i].k = key].v

\* mutant: the loop does not stop at the first hit, the last hit wins
LastContained(items, t) ==
    IF \E i \in 1..Len(items) : Contains(t, items[i].k)
    THEN CHOOSE i \in 1..Len(items) :
            /\ Contains(t, items[i].k)
            /\ \A j \in (i + 1)..Len(items) : ~Contains(t, items[j].k)
    ELSE 0

\* for k, v in items: if k in t: return v   (0 when the loop falls through)
FirstContained(items, t) ==
    IF \E i \in 1..Len(items) : Contains(t, items[i].k)
    THEN CHOOSE i \in 1..Len(items) :
            /\ Contains(t, items[i].k)
            /\ \A j \in 1..(i - 1) : ~Contains(t, items[j].k)
    ELSE 0

(***************************************************************************)
(* Input normalizer                                                        *)
(***************************************************************************)
DefaultRole == "cybersecurity_engineer"
DefaultLevel == "mid"

\* mutant: an unknown role is passed through instead of defaulted
normalize_role_passthrough(role) ==
    LET r == Lower(Strip(StrOr(role, "")))
        i == FirstContained(ROLE_ALIASES, r)
    IN  IF HasKey(ROLE_ALIASES, r) THEN Lookup(ROLE_ALIASES, r)
        ELSE IF i # 0 THEN ROLE_ALIASES[i].v
        ELSE Replace(r, " ", "_")

\* mutant: no direct alias hit, the contained alias decides
normalize_role_fuzzy_only(role) ==
    LET r == Lower(Strip(StrOr(role, "")))
        i == FirstContained(ROLE_ALIASES, r)
        u == Replace(r, " ", "_")
    IN  IF i # 0 THEN ROLE_ALIASES[i].v
        ELSE IF u \in DOMAIN BASELINES_2024 THEN u
        ELSE DefaultRole

normalize_role(role) ==
    LET r == Lower(Strip(StrOr(role, "")))
        i == FirstContained(ROLE_ALIASES, r)
        u == Replace(r, " ", "_")
    IN  IF HasKey(ROLE_ALIASES, r) THEN Lookup(ROLE_ALIASES, r)
        ELSE IF i # 0 THEN ROLE_ALIASES[i].v
        ELSE IF u \in DOMAIN BASELINES_2024 THEN u
        ELSE DefaultRole

normalize_level(level) ==
    LET l == Lower(Strip(StrOr(level, "")))
        i == FirstContained(LEVEL_ALIASES, l)
    IN  IF HasKey(LEVEL_ALIASES, l) THEN Lookup(LEVEL_ALIASES, l)
        ELSE IF i # 0 THEN LEVEL_ALIASES[i].v
        ELSE DefaultLevel

(***************************************************************************)
(* Adjustment factors                                                      *)
(***************************************************************************)
GrowthYears == 2

RECURSIVE FPow(_, _)
FPow(x, n) == IF n = 0 THEN FScale ELSE FMul(FPow(x, n - 1), x)

\* mutant: simple instead of compound growth
apply_cagr_simple(low, high, role_key) ==
    LET cagr == Get(CAGR_BY_ROLE, role_key, CAGR_BY_ROLE["default"])
        factor == FScale + cagr * GrowthYears
    IN  << FMul(low, factor), FMul(high, factor) >>

apply_cagr(low, high, role_key) ==
    LET cagr == Get(CAGR_BY_ROLE, role_key, CAGR_BY_ROLE["default"])
        factor == FPow(FScale + cagr, GrowthYears)
    IN  << FMul(low, factor), FMul(high, factor) >>

apply_inflation(low, high) ==
    << FMul(low, INFLATION_2024_TO_2026), FMul(high, INFLATION_2024_TO_2026) >>

SkillsCap == 2500
SkillsDamping == 8500

RECURSIVE SumPremiums(_)
SumPremiums(skills) ==
    IF skills = <<>> THEN 0
    ELSE SumPremiums(SubSeq(skills, 1, Len(skills) - 1))
         + Get(SKILL_PREMIUM, skills[Len(skills)], 0)

\* mutant: the cap on the summed premiums is missing
compute_skills_multiplier_uncapped(skills) ==
    FScale + FMul(SkillsDamping, SumPremiums(skills))

\* mutant: total = premium instead of total += premium
compute_skills_multiplier_last(skills) ==
    LET total == IF skills = <<>> THEN 0
                 ELSE Min(Get(SKILL_PREMIUM, skills[Len(skills)], 0), SkillsCap)
    IN  FScale + FMul(SkillsDamping, total)

compute_skills_multiplier(skills) ==
    LET total == Min(SumPremiums(skills), SkillsCap)
    IN  FScale + FMul(SkillsDamping, total)

\* mutant: the code is not trimmed before the lookup
compute_geo_multiplier_untrimmed(state) ==
    LET key == Upper(StrOr(state, ""))
    IN  Get(GEO_MULTIPLIER, key, GEO_MULTIPLIER["DEFAULT"])

compute_geo_multiplier(state) ==
    LET key == Upper(Strip(StrOr(state, "")))
    IN  Get(GEO_MULTIPLIER, key, GEO_MULTIPLIER["DEFAULT"])

ClipLow == -500
ClipHigh == 800
Leverage == 80
LeverageHigh == 100
HighLeverageRoles ==
    {"security_architect", "cloud_security_engineer", "devsecops_engineer"}
TargetYears == [entry |-> 10000, mid |-> 40000, senior |-> 80000]
DefaultTarget == 40000

\* np.clip
Clip(x, lo, hi) == Min(Max(x, lo), hi)

\* mutant: the adjustment is not clipped
regression_adjustment_unclipped(role_key, level, years_exp) ==
    LET target == Get(TargetYears, level, DefaultTarget)
        delta == years_exp - target
        leverage == IF role_key \in HighLeverageRoles THEN LeverageHigh ELSE Leverage
    IN  FScale + FMul(delta, leverage)

regression_adjustment(role_key, level, years_exp) ==
    LET target == Get(TargetYears, level, DefaultTarget)
        delta == years_exp - target
        leverage == IF role_key \in HighLeverageRoles THEN LeverageHigh ELSE Leverage
    IN  FScale + Clip(FMul(delta, leverage), ClipLow, ClipHigh)

(***************************************************************************)
(* Text heuristic extractor                                                *)
(***************************************************************************)
\* \w of the re module, on ASCII text
IsWordChar(c) ==
    \/ IndexIn(LowerChars, c) # 0
    \/ IndexIn(UpperChars, c) # 0
    \/ IndexIn(DigitChars, c) # 0
    \/ c = "_"

WordAt(t, i) == i >= 1 /\ i <= Len(t) /\ IsWordChar(CharAt(t, i))

\* \b between the characters p and p + 1 of t
Boundary(t, p) == WordAt(t, p) # WordAt(t, p + 1)

\* mutant: the pattern is searched without the word boundaries
SearchAnywhere(t, k) == Contains(t, k)

\* re.search(rf"\b{k}\b", t) for a pattern k without metacharacters
SearchWord(t, k) ==
    \E i \in 1..(Len(t) - Len(k) + 1) :
        /\ SubSeq(t, i, i + Len(k) - 1) = k
        /\ Boundary(t, i - 1)
        /\ Boundary(t, i + Len(k) - 1)

FirstWordMatch(items, t) ==
    IF \E i \in 1..Len(items) : SearchWord(t, items[i].k)
    THEN CHOOSE i \in 1..Len(items) :
            /\ SearchWord(t, items[i].k)
            /\ \A j \in 1..(i - 1) : ~SearchWord(t, items[j].k)
    ELSE 0

\* the characters of the tokens in code point order
CodeOrder == " +-/0123456789ABCDEFGHIJKLMNOPQRSTUVWXYZ_abcdefghijklmnopqrstuvwxyz"

\* ord(c)
CodePoint ==
    [c \in {CharAt(CodeOrder, i) : i \in 1..Len(CodeOrder)} |-> IndexIn(CodeOrder, c)]

\* a < b on str
RECURSIVE StrLess(_, _)
StrLess(a, b) ==
    IF b = "" THEN FALSE
    ELSE IF a = "" THEN TRUE
    ELSE IF Head(a) = Head(b) THEN StrLess(Tail(a), Tail(b))
    ELSE CodePoint[Head(a)] < CodePoint[Head(b)]

Range(seq) == {seq[i] : i \in 1..Len(seq)}

\* the sorted list with x put in its place
Insert(x, seq) ==
    LET n == Cardinality({i \in 1..Len(seq) : StrLess(seq[i], x)})
    IN  SubSeq(seq, 1, n) \o <<x>> \o SubSeq(seq, n + 1, Len(seq))

\* sorted(S) for a set S of str
RECURSIVE Sorted(_)
Sorted(S) ==
    IF S = {} THEN <<>>
    ELSE LET x == CHOOSE y \in S : TRUE
         IN  Insert(x, Sorted(S \ {x}))

CERT_STRINGS ==
    << "oscp", "cissp", "ccsp", "gcih", "gcfa", "gpen", "security+", "security plus" >>

\* mutant: the certificate string is kept as it is spelled
NormalizedCertKept(cert) == cert

\* normalized = "security_plus" if "security" in cert else cert
NormalizedCert(cert) == IF Contains(cert, "security") THEN "security_plus" ELSE cert

extract_from_text(text) ==
    LET t == Lower(text)
        ri == FirstContained(ROLE_ALIASES, t)
        li == FirstWordMatch(LEVEL_ALIASES, t)
        from_table == { SKILL_ORDER[i] : i \in
                          { j \in 1..Len(SKILL_ORDER) :
                              \/ Contains(t, Replace(SKILL_ORDER[j], "_", " "))
                              \/ Contains(t, SKILL_ORDER[j]) } }
        from_certs == { NormalizedCert(CERT_STRINGS[i]) : i \in
                          { j \in 1..Len(CERT_STRINGS) : Contains(t, CERT_STRINGS[j]) } }
    IN  [ role_key |-> IF ri = 0 THEN None ELSE ROLE_ALIASES[ri].v,
          level    |-> IF li = 0 THEN None ELSE LEVEL_ALIASES[li].v,
          skills   |-> Sorted(from_table \cup from_certs) ]

TextInputs ==
    {ROLE_ALIASES[i].k : i \in 1..Len(ROLE_ALIASES)}
    \cup
    { "",
      "We need a mid-level security engineer with SIEM/SOAR, Zero Trust, and CISSP preferred.",
      "Senior Cloud Security Engineer - AWS, Kubernetes, Terraform, CNAPP, CCSP.",
      "Entry SOC analyst with EDR and SIEM experience. Security+ is a plus.",
      "Leadership and stakeholder communication",
      "Staff pen tester, OSCP or Security Plus",
      "Senior or lead, formerly junior analyst",
      "Midsize firm seeks staff engineer" }

\* extract_from_text on the texts above, evaluated once
ExtractMemo == [t \in TextInputs |-> extract_from_text(t)]

Extracted(text) ==
    IF text \in DOMAIN ExtractMemo THEN ExtractMemo[text] ELSE extract_from_text(text)

(***************************************************************************)
(* Ensemble                                                                *)
(***************************************************************************)
\* mutant: the defaults are not substituted for a missing configuration
WeightsOrNoDefault(weights) == weights.map

\* a weights argument: none is TRUE for None, map is the dict otherwise
\* weights or DEFAULT_WEIGHTS.copy()
WeightsOr(weights) ==
    IF weights.none \/ DOMAIN weights.map = {} THEN DEFAULT_WEIGHTS ELSE weights.map

\* mutant: the caller's value wins over the extracted one
ExtOrCallerFirst(extracted, current) == current

\* ext[...] or current
ExtOr(extracted, current) == StrOr(extracted, current)

\* mutant: (w - 1) written for (1 - w)
BlendSignSlip(x, y, w) == FMul(x, w - FScale) + FMul(y, w)

\* mutant: the first term is not scaled down by (1 - w)
BlendNoComplement(x, y, w) == x + FMul(y, w)

\* (1 - w) * x + w * y
Blend(x, y, w) == FMul(x, FScale - w) + FMul(y, w)

\* predict_2026 is modelled in the order of its statements, each group of
\* statements an operator that hands its local variables to the next.  The
\* result holds exc ("KeyError" when a weights[...] subscript fails, "none"
\* otherwise), the local variables (frame) and the returned breakdown.

\* mutant: the geo step blends toward candidate C (geo only) instead of D
predict_blend_toward_c(weights, parts, frame) ==
    IF ~({"skills", "geo", "regression"} \subseteq DOMAIN weights)
    THEN [ exc |-> "KeyError", frame |-> frame ]
    ELSE
    LET low1 == Blend(frame.a_low, frame.b_low, weights["skills"])
        high1 == Blend(frame.a_high, frame.b_high, weights["skills"])
        low2 == Blend(low1, frame.c_low, weights["geo"])
        high2 == Blend(high1, frame.c_high, weights["geo"])
        low == Blend(low2, frame.e_low, weights["regression"])
        high == Blend(high2, frame.e_high, weights["regression"])
    IN  [ exc |-> "none", frame |-> frame,
          value |->
            [ baseline_low |-> parts.base_low,
              baseline_high |-> parts.base_high,
              cagr_low |-> parts.cagr_low,
              cagr_high |-> parts.cagr_high,
              inflation_low |-> parts.infl_low,
              inflation_high |-> parts.infl_high,
              skills_multiplier |-> parts.s_mult,
              geo_multiplier |-> parts.g_mult,
              regression_adjustment |-> parts.r_mult,
              final_low |-> low,
              final_mid |-> (low + high) \div 2,
              final_high |-> high ] ]

\* weighted ensemble and the returned PredictionBreakdown
predict_blend(weights, parts, frame) ==
    IF ~({"skills", "geo", "regression"} \subseteq DOMAIN weights)
    THEN [ exc |-> "KeyError", frame |-> frame ]
    ELSE
    LET w_sk == weights["skills"]
        w_geo == weights["geo"]
        w_reg == weights["regression"]
        low1 == Blend(frame.a_low, frame.b_low, w_sk)
        high1 == Blend(frame.a_high, frame.b_high, w_sk)
        low2 == Blend(low1, frame.d_low, w_geo)
        high2 == Blend(high1, frame.d_high, w_geo)
        low == Blend(low2, frame.e_low, w_reg)
        high == Blend(high2, frame.e_high, w_reg)
    IN  [ exc |-> "none", frame |-> frame,
          value |->
            [ baseline_low |-> parts.base_low,
              baseline_high |-> parts.base_high,
              cagr_low |-> parts.cagr_low,
              cagr_high |-> parts.cagr_high,
              inflation_low |-> parts.infl_low,
              inflation_high |-> parts.infl_high,
              skills_multiplier |-> parts.s_mult,
              geo_multiplier |-> parts.g_mult,
              regression_adjustment |-> parts.r_mult,
              final_low |-> low,
              final_mid |-> (low + high) \div 2,
              final_high |-> high ] ]

\* candidates A to E
predict_candidates(weights, parts, resolved) ==
    LET d_low == FMul(FMul(parts.infl_low, parts.s_mult), parts.g_mult)
        d_high == FMul(FMul(parts.infl_high, parts.s_mult), parts.g_mult)
    IN  predict_blend(weights, parts,
            [ role_key |-> resolved.role_key, level |-> resolved.level,
              skills |-> resolved.skills, ext |-> resolved.ext,
              fallback_role |-> resolved.fallback_role,
              fallback_level |-> resolved.fallback_level,
              a_low |-> parts.infl_low,
              a_high |-> parts.infl_high,
              b_low |-> FMul(parts.infl_low, parts.s_mult),
              b_high |-> FMul(parts.infl_high, parts.s_mult),
              c_low |-> FMul(parts.infl_low, parts.g_mult),
              c_high |-> FMul(parts.infl_high, parts.g_mult),
              d_low |-> d_low,
              d_high |-> d_high,
              e_low |-> FMul(d_low, parts.r_mult),
              e_high |-> FMul(d_high, parts.r_mult) ])

\* inflation on top of the growth, and the three multipliers
predict_factors(inp, weights, base, cagr, resolved) ==
    LET infl == apply_inflation(cagr[1], cagr[2])
    IN  predict_candidates(weights,
            [ base_low |-> ToMoney(base[1]), base_high |-> ToMoney(base[2]),
              cagr_low |-> cagr[1], cagr_high |-> cagr[2],
              infl_low |-> infl[1], infl_high |-> infl[2],
              s_mult |-> compute_skills_multiplier(resolved.skills),
              g_mult |-> compute_geo_multiplier(inp.state),
              r_mult |-> regression_adjustment(resolved.role_key, resolved.level,
                                               inp.years_experience) ],
            resolved)

\* the baseline of the resolved role and level, and its growth
predict_baseline(inp, weights, resolved) ==
    LET base == BASELINES_2024[resolved.role_key][resolved.level]
    IN  predict_factors(inp, weights, base,
            apply_cagr(ToMoney(base[1]), ToMoney(base[2]), resolved.role_key),
            resolved)

\* the fallback of the level
predict_level(inp, weights, role_key, fallback_role, level1, skills, ext) ==
    predict_baseline(inp, weights,
        [ role_key |-> role_key,
          level |-> IF level1 \notin DOMAIN BASELINES_2024[role_key] THEN "mid" ELSE level1,
          skills |-> skills, ext |-> ext,
          fallback_role |-> fallback_role,
          fallback_level |-> (level1 \notin DOMAIN BASELINES_2024[role_key]) ])

\* the fallback of the role
predict_role(inp, weights, role_key1, level1, skills, ext) ==
    predict_level(inp, weights,
        IF role_key1 \notin DOMAIN BASELINES_2024 THEN "cybersecurity_engineer" ELSE role_key1,
        role_key1 \notin DOMAIN BASELINES_2024,
        level1, skills, ext)

\* the enrichment of the caller's values by the description
predict_enrich(inp, weights, enrich, ext) ==
    predict_role(inp, weights,
        IF enrich THEN ExtOr(ext.role_key, normalize_role(inp.role))
        ELSE normalize_role(inp.role),
        IF enrich THEN ExtOr(ext.level, normalize_level(inp.level))
        ELSE normalize_level(inp.level),
        IF enrich THEN Sorted(Range(inp.skills \o ext.skills)) ELSE inp.skills,
        ext)

predict_2026(inp, weights_arg) ==
    predict_enrich(inp, WeightsOr(weights_arg),
        inp.job_description # None /\ inp.job_description # "",
        IF inp.job_description # None /\ inp.job_description # ""
        THEN Extracted(inp.job_description)
        ELSE [role_key |-> None, level |-> None, skills |-> <<>>])

\* the module-level dictionaries, as objects any code of the process can reach
Tables ==
    [ BASELINES_2024 |-> BASELINES_2024, CAGR_BY_ROLE |-> CAGR_BY_ROLE,
      GEO_MULTIPLIER |-> GEO_MULTIPLIER, SKILL_PREMIUM |-> SKILL_PREMIUM,
      ROLE_ALIASES |-> ROLE_ALIASES, LEVEL_ALIASES |-> LEVEL_ALIASES ]

\* mutant: skills is the caller's list itself and is extended in place
predict_2026_heap_aliased(h, inp, weights_arg) ==
    IF inp.job_description # None /\ inp.job_description # ""
    THEN [h EXCEPT !.inp.skills = @ \o Extracted(inp.job_description).skills]
    ELSE h

\* What a call leaves in the objects that outlive it. The body stores into
\* no object it was given and into no module-level dictionary: weights is the
\* caller's mapping or a copy of DEFAULT_WEIGHTS and is only subscripted,
\* skills is a new list made by list() and rebound to the new list of
\* sorted(set(...)), and inp is only read.
predict_2026_heap(h, inp, weights_arg) == h

(***************************************************************************)
(* Callers: the inputs the engine is exercised with                        *)
(***************************************************************************)
MaxSkills == 6
MaxYearsQ == 48

Spell(c, s) == IF c = "upper" THEN Upper(s) ELSE IF c = "lower" THEN Lower(s) ELSE s
Spellings == {"lower", "upper"}

AliasPhrases(items) == {items[i].k : i \in 1..Len(items)}

RoleCores ==
    AliasPhrases(ROLE_ALIASES) \cup DOMAIN BASELINES_2024
    \cup {"", "wizard", "incident response dfir", "threat  hunter", "soc-analyst"}

RoleInputs ==
    {None, "Cybersecurity Engineer", "Cloud Security Engineer", "SOC Analyst"}
    \cup { Spell(c, p \o core \o q) :
             c \in Spellings, p \in {"", " ", "senior "},
             core \in RoleCores, q \in {"", "\t", " ii"} }

LevelCores ==
    AliasPhrases(LEVEL_ALIASES)
    \cup {"", "guru", "leadership", "midlevel", "sr", "mid_level",
          "mid-senior", "lead or junior", "senior/staff"}

LevelInputs ==
    {None, "Mid", "Senior", "Entry"}
    \cup { Spell(c, p \o core \o q) :
             c \in Spellings, p \in {"", " ", "very "},
             core \in LevelCores, q \in {"", "\n", " engineer"} }

StateCores == DOMAIN GEO_MULTIPLIER \cup {"", "ZZ", "Texas", "C A", "Tx"}

StateInputs ==
    {None}
    \cup { p \o Spell(c, core) \o q :
             c \in Spellings, p \in {"", " ", "\t "},
             core \in StateCores, q \in {"", " ", "\n"} }

SkillTokens == {"oscp", "cissp", "edr", "blockchain"}

RECURSIVE SeqsUpTo(_, _)
SeqsUpTo(S, n) ==
    IF n = 0 THEN {<<>>}
    ELSE LET shorter == SeqsUpTo(S, n - 1)
         IN  shorter \cup { Append(q, x) : q \in {r \in shorter : Len(r) = n - 1}, x \in S }

SkillLists == SeqsUpTo(SkillTokens, MaxSkills)

YearStep == FScale \div 4
YearInputs == { q * YearStep : q \in 0..MaxYearsQ }

RegressionRoles == DOMAIN BASELINES_2024 \cup {"wizard"}
RegressionLevels == {"entry", "mid", "senior", "guru"}

PredictRoles == {"Cybersecurity Engineer", "Cloud Security Engineer"}
PredictLevels == {"Mid", "Senior"}
PredictStates == {None, "TX", "OH"}
PredictYears == {0, 4 * FScale, 20 * FScale}
PredictSkills ==
    { <<>>,
      <<"siem", "soar", "zero_trust", "cissp">>,
      <<"edr", "blockchain", "edr">> }
PredictDescriptions ==
    { None, "",
      "We need a mid-level security engineer with SIEM/SOAR, Zero Trust, and CISSP preferred.",
      "Entry SOC analyst with EDR and SIEM experience. Security+ is a plus.",
      "Leadership and stakeholder communication" }

\* the demo's inputs and their variations
VariedInputs ==
    { [ role |-> role, level |-> level, years_experience |-> years,
        state |-> state, skills |-> skills, job_description |-> desc ] :
      role \in PredictRoles, level \in PredictLevels, state \in PredictStates,
      years \in PredictYears, skills \in PredictSkills, desc \in PredictDescriptions }

\* a caller that passes the role text as the description too
EchoInputs ==
    { [ role |-> p, level |-> level, years_experience |-> 4 * FScale,
        state |-> "TX", skills |-> <<>>, job_description |-> p ] :
      p \in AliasPhrases(ROLE_ALIASES), level \in PredictLevels }

\* a caller whose role and level are missing or unknown
StrayInputs ==
    { [ role |-> role, level |-> level, years_experience |-> 4 * FScale,
        state |-> "TX", skills |-> <<>>, job_description |-> desc ] :
      role \in {None, "", "wizard", "soc_analyst"},
      level \in {None, "guru", "Entry"},
      desc \in { None, "Leadership and stakeholder communication",
                 "Senior Cloud Security Engineer - AWS, Kubernetes, Terraform, CNAPP, CCSP." } }

PredictInputs == VariedInputs \cup EchoInputs \cup StrayInputs

WeightValues == {0, 2000, 10000}
WeightKeys == {"skills", "geo", "regression"}
WeightArgs ==
    { [none |-> TRUE, map |-> <<>>], [none |-> FALSE, map |-> <<>>],
      [none |-> FALSE, map |-> [skills |-> 5000]],
      [none |-> FALSE, map |-> [cagr |-> 2000, inflation |-> 2000]],
      [none |-> FALSE, map |-> [skills |-> 15000, geo |-> -5000, regression |-> 20000]] }
    \cup { [none |-> FALSE, map |-> m] : m \in [WeightKeys -> WeightValues] }

(***************************************************************************)
(* State: the call in progress and what it returned                        *)
(***************************************************************************)
VARIABLES op, args, ret, heap
vars == <<op, args, ret, heap>>

\* the module is imported and no call is in progress
Idle ==
    /\ op = "idle"
    /\ args = <<>>
    /\ ret = None
    /\ heap = [ inp |-> None, weights |-> None,
                DEFAULT_WEIGHTS |-> DEFAULT_WEIGHTS, tables |-> Tables ]

Init == Idle

CallNormalizeRole ==
    /\ op = "idle"
    /\ \E role \in RoleInputs :
          /\ op' = "normalize_role"
          /\ args' = [role |-> role]
          /\ ret' = normalize_role(role)
          /\ UNCHANGED heap

CallNormalizeLevel ==
    /\ op = "idle"
    /\ \E level \in LevelInputs :
          /\ op' = "normalize_level"
          /\ args' = [level |-> level]
          /\ ret' = normalize_level(level)
          /\ UNCHANGED heap

CallSkillsMultiplier ==
    /\ op = "idle"
    /\ \E skills \in SkillLists :
          /\ op' = "compute_skills_multiplier"
          /\ args' = [skills |-> skills]
          /\ ret' = compute_skills_multiplier(skills)
          /\ UNCHANGED heap

CallGeoMultiplier ==
    /\ op = "idle"
    /\ \E state \in StateInputs :
          /\ op' = "compute_geo_multiplier"
          /\ args' = [state |-> state]
          /\ ret' = compute_geo_multiplier(state)
          /\ UNCHANGED heap

CallRegression ==
    /\ op = "idle"
    /\ \E role_key \in RegressionRoles, level \in RegressionLevels,
          years_exp \in YearInputs :
          /\ op' = "regression_adjustment"
          /\ args' = [role_key |-> role_key, level |-> level, years_exp |-> years_exp]
          /\ ret' = regression_adjustment(role_key, level, years_exp)
          /\ UNCHANGED heap

CallExtract ==
    /\ op = "idle"
    /\ \E text \in TextInputs :
          /\ op' = "extract_from_text"
          /\ args' = [text |-> text]
          /\ ret' = Extracted(text)
          /\ UNCHANGED heap

CallPredict ==
    /\ op = "idle"
    /\ \E inp \in PredictInputs, weights \in WeightArgs :
          /\ op' = "predict_2026"
          /\ args' = [inp |-> inp, weights |-> weights]
          /\ ret' = predict_2026(inp, weights)
          /\ heap' = predict_2026_heap([heap EXCEPT !.inp = inp, !.weights = weights],
                                       inp, weights)

\* the caller is done with the result
Return ==
    /\ op # "idle"
    /\ op' = "idle"
    /\ args' = <<>>
    /\ ret' = None
    /\ heap' = [heap EXCEPT !.inp = None, !.weights = None]

Next ==
    \/ CallNormalizeRole
    \/ CallNormalizeLevel
    \/ CallSkillsMultiplier
    \/ CallGeoMultiplier
    \/ CallRegression
    \/ CallExtract
    \/ CallPredict
    \/ Return

Spec == Init /\ [][Next]_vars

(***************************************************************************)
(* Properties                                                              *)
(***************************************************************************)
Returned(name) == op = name /\ (name = "predict_2026" => ret.exc = "none")

\* the weights predict_2026 reads
UsedWeights == WeightsOr(args.weights)

WeightsInUnit ==
    \A k \in WeightKeys : k \in DOMAIN UsedWeights /\ UsedWeights[k] \in 0..FScale

WeightsAll(v) == \A k \in WeightKeys : k \in DOMAIN UsedWeights /\ UsedWeights[k] = v

HasDescription == args.inp.job_description \notin {None, ""}

\* C1: for every input and every weight configuration with skills, geo and
\* regression in [0,1], the returned breakdown has
\* final_low <= final_mid <= final_high.
C1_FinalOrdered ==
    (Returned("predict_2026") /\ WeightsInUnit) =>
        /\ ret.value.final_low <= ret.value.final_mid
        /\ ret.value.final_mid <= ret.value.final_high

C1_Witness ==
    /\ Returned("predict_2026")
    /\ ~args.weights.none
    /\ WeightsAll(2000)
    /\ HasDescription
    /\ ret.value.skills_multiplier > FScale
    /\ ret.value.final_low < ret.value.final_mid
    /\ ret.value.final_mid < ret.value.final_high

\* candidate E recomputed from the breakdown: post-inflation x s x g x r
CandidateE(x) ==
    FMul(FMul(FMul(x, ret.value.skills_multiplier), ret.value.geo_multiplier),
         ret.value.regression_adjustment)

\* C2: with skills = geo = regression = 0 the final low/high equal candidate A
\* (the post-growth, post-inflation low/high); with all three equal to 1 they
\* equal candidate E (post-inflation x skills x geo x regression) exactly.
C2_WeightExtremes ==
    Returned("predict_2026") =>
        /\ WeightsAll(0) =>
              /\ ret.value.final_low = ret.value.inflation_low
              /\ ret.value.final_high = ret.value.inflation_high
        /\ WeightsAll(FScale) =>
              /\ ret.value.final_low = CandidateE(ret.value.inflation_low)
              /\ ret.value.final_high = CandidateE(ret.value.inflation_high)

C2_Witness ==
    /\ Returned("predict_2026")
    /\ WeightsAll(FScale)
    /\ ret.value.skills_multiplier > FScale
    /\ ret.value.geo_multiplier # FScale
    /\ ret.value.regression_adjustment # FScale
    /\ ret.value.final_low = CandidateE(ret.value.inflation_low)
    /\ ret.value.final_low # ret.value.inflation_low

\* C3 as stated: predict_2026 returns a breakdown, never an error, for every
\* input and every weights mapping whatever keys it holds.
C3_NeverRaises == op = "predict_2026" => ret.exc = "none"

\* a mapping that is given, not empty and lacks one of the keys that are read
MissesWeightKey ==
    /\ ~args.weights.none
    /\ DOMAIN args.weights.map # {}
    /\ ~(WeightKeys \subseteq DOMAIN args.weights.map)

\* C3 amended: predict_2026 returns a breakdown for every input and every
\* weights argument that is None, empty, or holds the keys skills, geo and
\* regression with numbers of any size; it raises KeyError exactly when a
\* non-empty mapping lacks one of these keys.
C3_RaisesOnlyOnMissingKey ==
    op = "predict_2026" =>
        /\ ret.exc \in {"none", "KeyError"}
        /\ ret.exc = "KeyError" <=> MissesWeightKey

C3_Witness ==
    /\ op = "predict_2026"
    /\ ret.exc = "none"
    /\ ~args.weights.none
    /\ WeightKeys \subseteq DOMAIN args.weights.map
    /\ \E k \in WeightKeys : args.weights.map[k] \notin 0..FScale
    /\ HasDescription

\* C4: with a non-empty description the role used for the baseline lookup is
\* the extracted role if one is found and else normalize_role(inp.role), the
\* level is the extracted level if found and else normalize_level(inp.level),
\* and the skills are the set union of the caller's and the extracted skills;
\* with no description only the caller's normalized role, level and skills
\* are used.
C4_DescriptionPriority ==
    op = "predict_2026" =>
        LET inp == args.inp
            used == ret.frame
        IN  IF HasDescription
            THEN LET found == Extracted(inp.job_description)
                 IN  /\ used.role_key = IF found.role_key # None THEN found.role_key
                                        ELSE normalize_role(inp.role)
                     /\ used.level = IF found.level # None THEN found.level
                                     ELSE normalize_level(inp.level)
                     /\ Range(used.skills) = Range(inp.skills) \cup Range(found.skills)
            ELSE /\ used.role_key = normalize_role(inp.role)
                 /\ used.level = normalize_level(inp.level)
                 /\ used.skills = inp.skills

C4_Witness ==
    /\ op = "predict_2026"
    /\ HasDescription
    /\ ret.frame.ext.role_key # None
    /\ ret.frame.role_key = ret.frame.ext.role_key
    /\ ret.frame.role_key # normalize_role(args.inp.role)
    /\ ret.frame.ext.level # None
    /\ ret.frame.level # normalize_level(args.inp.level)
    /\ Range(ret.frame.skills) # Range(args.inp.skills)
    /\ Range(ret.frame.skills) # Range(ret.frame.ext.skills)

\* the number of times token t is listed
Occurrences(skills, t) == Cardinality({i \in 1..Len(skills) : skills[i] = t})

\* the premiums of the listed tokens that are in the table, each counted as
\* often as it is listed
RECURSIVE TablePremiums(_, _)
TablePremiums(skills, tokens) ==
    IF tokens = {} THEN 0
    ELSE LET t == CHOOSE x \in tokens : TRUE
         IN  Occurrences(skills, t) * SKILL_PREMIUM[t] + TablePremiums(skills, tokens \ {t})

\* C5: for every list of skill tokens the multiplier m is
\* 1 + 0.85 x min(sum of the premiums of the listed table tokens, 0.25),
\* tokens absent from the table count zero, and 1.0 <= m <= 1.2125.
C5_SkillsMultiplierBounded ==
    op = "compute_skills_multiplier" =>
        LET sum == TablePremiums(args.skills, DOMAIN SKILL_PREMIUM)
        IN  /\ ret = FScale + (85 * Min(sum, 2500)) \div 100
            /\ ret >= FScale
            /\ ret <= 12125

C5_Witness ==
    /\ op = "compute_skills_multiplier"
    /\ \E i \in 1..Len(args.skills) : args.skills[i] \notin DOMAIN SKILL_PREMIUM
    /\ TablePremiums(args.skills, DOMAIN SKILL_PREMIUM) > 2500
    /\ ret = 12125

\* tokens that may be added to a list: every table token and unknown ones
AddedTokens == DOMAIN SKILL_PREMIUM \cup SkillTokens

\* C6: the skills multiplier is monotonically non-decreasing as skills are
\* added: for every list L and token t, the multiplier of L + [t] is at
\* least the multiplier of L.
C6_SkillsMonotone ==
    op = "compute_skills_multiplier" =>
        \A t \in AddedTokens :
            compute_skills_multiplier(Append(args.skills, t)) >= ret

C6_Witness ==
    /\ op = "compute_skills_multiplier"
    /\ args.skills # <<>>
    /\ ret < 12125
    /\ compute_skills_multiplier(Append(args.skills, "edr")) > ret
    /\ compute_skills_multiplier(Append(args.skills, "blockchain")) = ret

\* the role string after trimming and lower-casing
NormalRole == Lower(Strip(IF args.role = None THEN "" ELSE args.role))

MatchesRoleAlias ==
    \E i \in 1..Len(ROLE_ALIASES) : Contains(NormalRole, ROLE_ALIASES[i].k)

\* C7: normalize_role always returns a key of BASELINES_2024, and a role
\* that matches no alias (exactly or by containment) and is not itself a
\* baseline key yields 'cybersecurity_engineer'.
C7_RoleTotal ==
    op = "normalize_role" =>
        /\ ret \in DOMAIN BASELINES_2024
        /\ (~MatchesRoleAlias /\ Replace(NormalRole, " ", "_") \notin DOMAIN BASELINES_2024)
              => ret = "cybersecurity_engineer"

C7_Witness ==
    /\ op = "normalize_role"
    /\ args.role \notin {None, ""}
    /\ ~MatchesRoleAlias
    /\ Replace(NormalRole, " ", "_") \notin DOMAIN BASELINES_2024
    /\ ret = "cybersecurity_engineer"

\* the level string after trimming and lower-casing
NormalLevel == Lower(Strip(IF args.level = None THEN "" ELSE args.level))

LevelAliasIn(i) == Contains(NormalLevel, LEVEL_ALIASES[i].k)

\* C8: normalize_level returns one of 'entry', 'mid', 'senior': the target
\* of the alias equal to the input if there is one, else the target of the
\* first alias, in table order, contained in the input, else 'mid'.
C8_LevelTotal ==
    op = "normalize_level" =>
        /\ ret \in {"entry", "mid", "senior"}
        /\ \A i \in 1..Len(LEVEL_ALIASES) :
              /\ NormalLevel = LEVEL_ALIASES[i].k => ret = LEVEL_ALIASES[i].v
              /\ ( /\ \A j \in 1..Len(LEVEL_ALIASES) : NormalLevel # LEVEL_ALIASES[j].k
                   /\ LevelAliasIn(i)
                   /\ \A j \in 1..(i - 1) : ~LevelAliasIn(j) )
                    => ret = LEVEL_ALIASES[i].v
        /\ (\A i \in 1..Len(LEVEL_ALIASES) : ~LevelAliasIn(i)) => ret = "mid"

C8_Witness ==
    /\ op = "normalize_level"
    /\ \A j \in 1..Len(LEVEL_ALIASES) : NormalLevel # LEVEL_ALIASES[j].k
    /\ \E i, j \in 1..Len(LEVEL_ALIASES) :
          /\ i < j
          /\ LevelAliasIn(i)
          /\ LevelAliasIn(j)
          /\ \A h \in 1..(i - 1) : ~LevelAliasIn(h)
          /\ LEVEL_ALIASES[i].v # LEVEL_ALIASES[j].v
          /\ ret = LEVEL_ALIASES[i].v

\* the location code after trimming and upper-casing
NormalState(state) == Upper(Strip(IF state = None THEN "" ELSE state))

\* C9: the location is looked up trimmed and upper-cased, so codes that
\* differ only in case or surrounding whitespace give the same multiplier,
\* and every unrecognized code, the empty string and None give 1.0.
C9_GeoLookup ==
    op = "compute_geo_multiplier" =>
        /\ NormalState(args.state) \in DOMAIN GEO_MULTIPLIER
              => ret = GEO_MULTIPLIER[NormalState(args.state)]
        /\ NormalState(args.state) \notin DOMAIN GEO_MULTIPLIER => ret = FScale
        /\ args.state \in {None, ""} => ret = FScale
        /\ \A other \in StateInputs :
              NormalState(other) = NormalState(args.state)
                 => compute_geo_multiplier(other) = ret

C9_Witness ==
    /\ op = "compute_geo_multiplier"
    /\ args.state # None
    /\ args.state # NormalState(args.state)
    /\ Strip(args.state) # args.state
    /\ Upper(args.state) # args.state
    /\ NormalState(args.state) \in DOMAIN GEO_MULTIPLIER
    /\ ret # FScale

BreakdownFields ==
    { "baseline_low", "baseline_high", "cagr_low", "cagr_high",
      "inflation_low", "inflation_high", "skills_multiplier", "geo_multiplier",
      "regression_adjustment", "final_low", "final_mid", "final_high" }

\* C11: for every input with years_experience >= 0 and every weight
\* configuration with skills, geo and regression in [0,1], every field of the
\* returned PredictionBreakdown is non-negative.
C11_FieldsNonNegative ==
    (Returned("predict_2026") /\ WeightsInUnit /\ args.inp.years_experience >= 0) =>
        /\ DOMAIN ret.value = BreakdownFields
        /\ \A f \in BreakdownFields : ret.value[f] >= 0

C11_Witness ==
    /\ Returned("predict_2026")
    /\ WeightsInUnit
    /\ \E k \in WeightKeys : UsedWeights[k] \notin {0, FScale}
    /\ ret.value.geo_multiplier < FScale
    /\ ret.value.regression_adjustment < FScale
    /\ ret.value.final_low > 0
    /\ ret.value.final_low < ret.value.inflation_low

\* the first documented example, with no description or with its own
ScenarioInput ==
    /\ args.inp.role = "Cybersecurity Engineer"
    /\ args.inp.level = "Mid"
    /\ args.inp.years_experience = 4 * FScale
    /\ args.inp.state = "TX"
    /\ args.inp.skills = <<"siem", "soar", "zero_trust", "cissp">>
    /\ args.inp.job_description \in
          { None, "",
            "We need a mid-level security engineer with SIEM/SOAR, Zero Trust, and CISSP preferred." }

DefaultWeightsUsed == \A k \in DOMAIN DEFAULT_WEIGHTS : k \in DOMAIN UsedWeights /\ UsedWeights[k] = 2000

\* strictly between, whichever of the two ends is the larger
StrictlyBetween(x, a, b) == (a < x /\ x < b) \/ (b < x /\ x < a)

\* C12: for role 'Cybersecurity Engineer', level 'Mid', 4 years, state 'TX',
\* skills {siem, soar, zero_trust, cissp} and default weights (0.20 each),
\* predict_2026 uses baseline (120000, 160000), growth 1.05^2, inflation
\* 1.07 and geo 1.03, and final_mid lies strictly between the mid of the
\* inflation-only candidate A and the mid of the fully adjusted candidate E.
C12_Scenario ==
    (op = "predict_2026" /\ ScenarioInput /\ DefaultWeightsUsed) =>
        /\ ret.exc = "none"
        /\ ret.value.baseline_low = 120000 * MoneyScale
        /\ ret.value.baseline_high = 160000 * MoneyScale
        /\ ret.value.cagr_low = 132300 * MoneyScale
        /\ ret.value.cagr_high = 176400 * MoneyScale
        /\ ret.value.inflation_low = 141561 * MoneyScale
        /\ ret.value.inflation_high = 188748 * MoneyScale
        /\ ret.value.geo_multiplier = 10300
        /\ StrictlyBetween(ret.value.final_mid,
              (ret.value.inflation_low + ret.value.inflation_high) \div 2,
              (CandidateE(ret.value.inflation_low) + CandidateE(ret.value.inflation_high)) \div 2)

C12_Witness ==
    /\ op = "predict_2026"
    /\ ScenarioInput
    /\ args.inp.job_description # None
    /\ args.weights.none
    /\ ret.exc = "none"
    /\ ret.value.skills_multiplier = 11275
    /\ ret.value.regression_adjustment = FScale
    /\ ret.value.final_mid > (ret.value.inflation_low + ret.value.inflation_high) \div 2

\* C14: a call of predict_2026 has no side effect on its arguments or on shared
\* configuration: after any call, returning or raising, the PredictionInput
\* with its skills list, the caller's weights mapping, DEFAULT_WEIGHTS and
\* all lookup tables hold what they held before the call.
C14_NoSideEffects ==
    /\ heap.DEFAULT_WEIGHTS = DEFAULT_WEIGHTS
    /\ heap.tables = Tables
    /\ op = "predict_2026" =>
          /\ heap.inp = args.inp
          /\ heap.weights = args.weights

C14_Witness ==
    /\ Returned("predict_2026")
    /\ args.weights.none
    /\ HasDescription
    /\ ret.frame.ext.skills # <<>>
    /\ ret.frame.skills # args.inp.skills
    /\ heap.inp.skills = args.inp.skills
    /\ heap.weights = args.weights

\* C15: extract_from_text("Entry SOC analyst with EDR and SIEM experience.
\* Security+ is a plus.") returns level 'entry' and skills containing siem,
\* edr and security_plus; a text with 'security+' or with 'security plus'
\* yields the token security_plus and neither spelling itself.
C15_ExtractExample ==
    op = "extract_from_text" =>
        /\ args.text = "Entry SOC analyst with EDR and SIEM experience. Security+ is a plus." =>
              /\ ret.level = "entry"
              /\ {"siem", "edr", "security_plus"} \subseteq Range(ret.skills)
        /\ (\/ Contains(Lower(args.text), "security+")
            \/ Contains(Lower(args.text), "security plus")) =>
              /\ "security_plus" \in Range(ret.skills)
              /\ Range(ret.skills) \cap {"security+", "security plus"} = {}

C15_Witness ==
    /\ op = "extract_from_text"
    /\ Contains(args.text, "Security+")
    /\ ~Contains(Lower(args.text), "security plus")
    /\ ret.level = "entry"
    /\ ret.role_key = "soc_analyst"
    /\ ret.skills = <<"edr", "security_plus", "siem">>

\* lerp(x, y, w) = (1 - w) * x + w * y
Lerp(x, y, w) == MulDiv(x, FScale - w, FScale) + MulDiv(y, w, FScale)

\* the annual growth rate of the resolved role
RateOfRole ==
    IF ret.frame.role_key \in {"cloud_security_engineer", "devsecops_engineer"} THEN 700
    ELSE IF ret.frame.role_key \in {"appsec_engineer", "security_architect"} THEN 600
    ELSE 500

\* candidate A from a baseline bound: baseline x (1 + rate)^2 x inflation
CandidateA(x) ==
    FMul(FMul(x, ((FScale + RateOfRole) * (FScale + RateOfRole)) \div FScale), 10700)

\* lerp(lerp(lerp(A, B, w_s), D, w_g), E, w_r) from a baseline bound
ChainedLerp(x) ==
    LET a == CandidateA(x)
        b == FMul(a, ret.value.skills_multiplier)
        d == FMul(b, ret.value.geo_multiplier)
        e == FMul(d, ret.value.regression_adjustment)
    IN  Lerp(Lerp(Lerp(a, b, UsedWeights["skills"]), d, UsedWeights["geo"]),
             e, UsedWeights["regression"])

\* C16: for each of low and high, the final value is
\* lerp(lerp(lerp(A, B, w_skills), D, w_geo), E, w_regression) with
\* A = baseline x (1 + rate)^2 x inflation, B = A x s, D = A x s x g and
\* E = D x r, and final_mid = (final_low + final_high) / 2; the geo-only
\* candidate C does not enter the result.
C16_ChainedLerp ==
    Returned("predict_2026") =>
        /\ ret.value.final_low = ChainedLerp(ret.value.baseline_low)
        /\ ret.value.final_high = ChainedLerp(ret.value.baseline_high)
        /\ ret.value.final_mid = (ret.value.final_low + ret.value.final_high) \div 2

C16_Witness ==
    /\ Returned("predict_2026")
    /\ \A k \in WeightKeys : UsedWeights[k] = 2000
    /\ ret.value.skills_multiplier > FScale
    /\ ret.value.geo_multiplier # FScale
    /\ ret.value.regression_adjustment # FScale
    /\ ret.frame.c_low # ret.frame.d_low
    /\ ret.value.final_low = ChainedLerp(ret.value.baseline_low)
    /\ ret.value.final_low \notin {ret.frame.a_low, ret.frame.e_low}

RoleAliasIs(i) == ROLE_ALIASES[i].k = NormalRole

RoleAliasIn(i) == Contains(NormalRole, ROLE_ALIASES[i].k)

WholeWordIn(t, k) ==
    \E i \in 1..(Len(t) - Len(k) + 1) :
        /\ SubSeq(t, i, i + Len(k) - 1) = k
        /\ (i = 1 \/ ~IsWordChar(CharAt(t, i - 1)))
        /\ (i + Len(k) - 1 = Len(t) \/ ~IsWordChar(CharAt(t, i + Len(k))))

\* no role alias, no level alias as a word, no skill and no certificate in t
NothingToExtract(t) ==
    /\ \A i \in 1..Len(ROLE_ALIASES) : ~Contains(t, ROLE_ALIASES[i].k)
    /\ \A i \in 1..Len(LEVEL_ALIASES) : ~WholeWordIn(t, LEVEL_ALIASES[i].k)
    /\ \A sk \in DOMAIN SKILL_PREMIUM :
          ~Contains(t, sk) /\ ~Contains(t, Replace(sk, "_", " "))
    /\ \A i \in 1..Len(CERT_STRINGS) : ~Contains(t, CERT_STRINGS[i])

\* C18: extract_from_text sets the level only on a whole-word match: an alias
\* that occurs only inside a longer word ('lead' in 'leadership') gives
\* level None, and the first alias in table order that occurs as a whole
\* word decides; a text with no match at all yields role_key None, level
\* None and an empty skills list.
C18_LevelWholeWord ==
    op = "extract_from_text" =>
        LET t == Lower(args.text)
        IN  /\ IF \E i \in 1..Len(LEVEL_ALIASES) : WholeWordIn(t, LEVEL_ALIASES[i].k)
               THEN \E i \in 1..Len(LEVEL_ALIASES) :
                       /\ WholeWordIn(t, LEVEL_ALIASES[i].k)
                       /\ \A j \in 1..(i - 1) : ~WholeWordIn(t, LEVEL_ALIASES[j].k)
                       /\ ret.level = LEVEL_ALIASES[i].v
               ELSE ret.level = None
            /\ NothingToExtract(t) =>
                  ret = [role_key |-> None, level |-> None, skills |-> <<>>]

C18_Witness ==
    /\ op = "extract_from_text"
    /\ Contains(Lower(args.text), "lead")
    /\ ~WholeWordIn(Lower(args.text), "lead")
    /\ NothingToExtract(Lower(args.text))
    /\ ret = [role_key |-> None, level |-> None, skills |-> <<>>]

\* the same call with the description left out
WithoutDescription == predict_2026([args.inp EXCEPT !.job_description = None], args.weights)

\* C19: a description that merely repeats the caller's role does not change
\* the role: for every alias phrase p of ROLE_ALIASES, predict_2026 with
\* role = p and job_description = p uses the same baseline low/high, the same
\* growth and the same regression leverage as with role = p and no description.
C19_EchoedRoleKept ==
    (/\ Returned("predict_2026")
     /\ args.inp.role \in AliasPhrases(ROLE_ALIASES)
     /\ args.inp.job_description = args.inp.role) =>
        /\ ret.frame.role_key = WithoutDescription.frame.role_key
        /\ ret.value.baseline_low = WithoutDescription.value.baseline_low
        /\ ret.value.baseline_high = WithoutDescription.value.baseline_high
        /\ ret.value.cagr_low = WithoutDescription.value.cagr_low
        /\ ret.value.cagr_high = WithoutDescription.value.cagr_high
        /\ ret.value.regression_adjustment = WithoutDescription.value.regression_adjustment

\* the same call with the caller's skills listed once each, in sorted order
WithSkillSet == predict_2026([args.inp EXCEPT !.skills = Sorted(Range(@))], args.weights)

\* C20: predict_2026 treats the caller's skills as a set: listing a token more
\* than once, or listing the tokens in another order, leaves
\* skills_multiplier and final low/mid/high unchanged, with a description
\* and without one.
C20_SkillsAsSet ==
    Returned("predict_2026") =>
        /\ ret.value.skills_multiplier = WithSkillSet.value.skills_multiplier
        /\ ret.value.final_low = WithSkillSet.value.final_low
        /\ ret.value.final_mid = WithSkillSet.value.final_mid
        /\ ret.value.final_high = WithSkillSet.value.final_high

\* the same call from another location
AtState(state) == predict_2026([args.inp EXCEPT !.state = state], args.weights)

\* C21: the geo weight gates the geographic factor: for every pair of inputs
\* that differ only in the location code and every weight configuration with
\* geo = 0 (skills and regression anywhere in [0,1]), predict_2026 returns
\* the same final low/mid/high for both.
C21_GeoWeightGates ==
    (Returned("predict_2026") /\ WeightsInUnit /\ UsedWeights["geo"] = 0) =>
        \A state \in PredictStates :
            /\ AtState(state).value.final_low = ret.value.final_low
            /\ AtState(state).value.final_mid = ret.value.final_mid
            /\ AtState(state).value.final_high = ret.value.final_high

\* C22: at the baseline lookup of predict_2026 the role is a key of
\* BASELINES_2024 and the level a key of that role's table, for every input
\* with or without a description: every ROLE_ALIASES target is a baseline
\* key and every LEVEL_ALIASES target exists for every role, so neither
\* fallback assignment before the lookup is taken and the lookup never fails.
C22_FallbacksNeverTaken ==
    /\ \A i \in 1..Len(ROLE_ALIASES) : ROLE_ALIASES[i].v \in DOMAIN BASELINES_2024
    /\ \A i \in 1..Len(LEVEL_ALIASES) : \A role_key \in DOMAIN BASELINES_2024 :
          LEVEL_ALIASES[i].v \in DOMAIN BASELINES_2024[role_key]
    /\ op = "predict_2026" =>
          /\ ~ret.frame.fallback_role
          /\ ~ret.frame.fallback_level
          /\ ret.frame.role_key \in DOMAIN BASELINES_2024
          /\ ret.frame.level \in DOMAIN BASELINES_2024[ret.frame.role_key]
          /\ ret.frame.role_key =
                (IF HasDescription /\ ret.frame.ext.role_key # None
                 THEN ret.frame.ext.role_key ELSE normalize_role(args.inp.role))
          /\ ret.frame.level =
                (IF HasDescription /\ ret.frame.ext.level # None
                 THEN ret.frame.ext.level ELSE normalize_level(args.inp.level))

C22_Witness ==
    /\ Returned("predict_2026")
    /\ args.inp.role = "wizard"
    /\ args.inp.level = "guru"
    /\ HasDescription
    /\ ret.frame.ext.role_key = None
    /\ ret.frame.ext.level = None
    /\ ~ret.frame.fallback_role
    /\ ~ret.frame.fallback_level
    /\ ret.value.baseline_low = 120000 * MoneyScale

====
